---- MODULE Spec2Model ----
(***************************************************************************)
(* Model of src/run.py: a Telegram bot that parses a trade signal, sizes   *)
(* it against the MetaTrader account balance and, on request, submits one  *)
(* order per take-profit.                                                  *)
(*                                                                         *)
(* Units.  Prices are integers in points (1 point = 0.00001).  Balances    *)
(* are integers in cents.  The risk fraction is in basis points (100 =     *)
(* 0.01).  Position sizes are in hundredths of a lot, order volumes in     *)
(* ten-thousandths of a lot.  Arithmetic is exact (rationals scaled to     *)
(* integers); the binary floating point of the source is not modelled.     *)
(*                                                                         *)
(* Handlers run one at a time (the Application processes updates           *)
(* sequentially), so each handler is one atomic action; what the venue     *)
(* answers during a handler is an input of the action.                     *)
(***************************************************************************)
EXTENDS Integers, Sequences, FiniteSets, TLC

\* ------------------------------------------------------------------ bounds
NumChats == 2            \* chats the bot is talked to in
MaxBalanceSteps == 12    \* SizeSpec: balances 0 .. MaxBalanceSteps * BalanceStep
MaxPips == 12            \* SizeSpec: stop-loss distances 1 .. MaxPips

\* ------------------------------------------------------- program constants
RISK_FACTOR == 100       \* 0.01, in basis points
END == "END"
TRADE == "TRADE"
CALCULATE == "CALCULATE"
DECISION == "DECISION"

SYMBOLS ==
  { "AUDCAD", "AUDCHF", "AUDJPY", "AUDNZD", "AUDUSD", "CADCHF", "CADJPY",
    "CHFJPY", "EURAUD", "EURCAD", "EURCHF", "EURGBP", "EURJPY", "EURNZD",
    "EURUSD", "GBPAUD", "GBPCAD", "GBPCHF", "GBPJPY", "GBPNZD", "GBPUSD",
    "NOW", "NZDCAD", "NZDCHF", "NZDJPY", "NZDUSD", "USDCAD", "USDCHF",
    "USDJPY", "XAGUSD", "XAUUSD" }

\* ------------------------------------------------------------ text, tokens
\* A text is a sequence of raw lines; a raw line is a sequence of tokens
\* (<<>> is a blank line).  str.upper / str.lower on the vocabulary used.
Upper(tok) ==
  CASE tok \in {"buy", "Buy"} -> "BUY"
    [] tok \in {"sell", "Sell"} -> "SELL"
    [] tok \in {"limit", "Limit"} -> "LIMIT"
    [] tok \in {"stop", "Stop"} -> "STOP"
    [] tok = "now" -> "NOW"
    [] tok = "gbpusd" -> "GBPUSD"
    [] tok = "Entry" -> "ENTRY"
    [] OTHER -> tok

Lower(tok) ==
  CASE Upper(tok) = "BUY" -> "buy"
    [] Upper(tok) = "SELL" -> "sell"
    [] Upper(tok) = "LIMIT" -> "limit"
    [] Upper(tok) = "STOP" -> "stop"
    [] OTHER -> tok

\* float(tok): <<points>> when tok is a decimal literal, <<>> when float()
\* raises ValueError.
ParseFloat(tok) ==
  CASE tok = "1.2500" -> <<125000>>
    [] tok = "1.2450" -> <<124500>>
    [] tok = "1.2400" -> <<124000>>
    [] tok = "1.2550" -> <<125500>>
    [] tok = "1.2600" -> <<126000>>
    [] tok = "1.2700" -> <<127000>>
    [] tok = "1.25" -> <<125000>>
    [] tok = "1.20" -> <<120000>>
    [] tok = "1.30" -> <<130000>>
    [] tok = "1900.0" -> <<190000000>>
    [] tok = "1895.0" -> <<189500000>>
    [] tok = "1910.0" -> <<191000000>>
    [] OTHER -> <<>>

None == <<>>
Some(x) == <<x>>

\* trade["Entry"]: the string "NOW" or a float.
NowEntry == [str |-> TRUE, px |-> 0]
Price(p) == [str |-> FALSE, px |-> p]

Last(s) == s[Len(s)]

\* "<a> <b>" in first
HasPhrase(line, a, b) ==
  \E i \in 1..(Len(line) - 1) : Lower(line[i]) = a /\ Lower(line[i + 1]) = b

\* first.startswith(a)
StartsWith(line, a) == Lower(line[1]) = a

\* lines = [l.strip() for l in signal_text.splitlines() if l.strip()]
RECURSIVE NonEmptyLines(_)
NonEmptyLines(text) ==
  IF text = <<>> THEN <<>>
  ELSE IF Head(text) = <<>> THEN NonEmptyLines(Tail(text))
       ELSE <<Head(text)>> \o NonEmptyLines(Tail(text))

\* a first line naming no order type is taken as a market buy
OrderTypeOfDefaultBuy(first) ==
  IF HasPhrase(first, "buy", "limit") THEN "Buy Limit"
  ELSE IF HasPhrase(first, "sell", "limit") THEN "Sell Limit"
  ELSE IF HasPhrase(first, "buy", "stop") THEN "Buy Stop"
  ELSE IF HasPhrase(first, "sell", "stop") THEN "Sell Stop"
  ELSE IF StartsWith(first, "sell") THEN "Sell"
  ELSE "Buy"

OrderTypeOf(first) ==
  IF HasPhrase(first, "buy", "limit") THEN "Buy Limit"
  ELSE IF HasPhrase(first, "sell", "limit") THEN "Sell Limit"
  ELSE IF HasPhrase(first, "buy", "stop") THEN "Buy Stop"
  ELSE IF HasPhrase(first, "sell", "stop") THEN "Sell Stop"
  ELSE IF StartsWith(first, "buy") THEN "Buy"
  ELSE IF StartsWith(first, "sell") THEN "Sell"
  ELSE "none"

\* TP (1 o 2): <<>> when a float() raises
TakeProfits(lines) ==
  LET tp1 == ParseFloat(Last(lines[4]))
      tp2 == IF Len(lines) > 4 THEN ParseFloat(Last(lines[5])) ELSE <<>>
  IN  IF tp1 = <<>> THEN <<>>
      ELSE IF Len(lines) > 4 THEN (IF tp2 = <<>> THEN <<>> ELSE tp1 \o tp2)
      ELSE tp1

\* parse_signal: Some(trade), or None for the {} the source returns.
parse_signal(signal_text) ==
  LET lines == NonEmptyLines(signal_text)
  IN  IF lines = <<>> THEN None
      ELSE IF OrderTypeOf(lines[1]) = "none" THEN None
      ELSE IF Upper(Last(lines[1])) \notin SYMBOLS THEN None
      ELSE IF Len(lines) < 4 THEN None
      ELSE LET entry_raw == Upper(Last(lines[2]))
               entry == IF entry_raw = "NOW" THEN Some(NowEntry)
                        ELSE IF ParseFloat(entry_raw) = <<>> THEN None
                        ELSE Some(Price(ParseFloat(entry_raw)[1]))
               stoploss == ParseFloat(Last(lines[3]))
               tp_list == TakeProfits(lines)
           IN  IF entry = None THEN None
               ELSE IF stoploss = <<>> THEN None
               ELSE IF tp_list = <<>> THEN None
               ELSE Some([OrderType |-> OrderTypeOf(lines[1]),
                          Symbol |-> Upper(Last(lines[1])),
                          Entry |-> entry[1],
                          StopLoss |-> stoploss[1],
                          TP |-> tp_list,
                          RiskFactor |-> RISK_FACTOR,
                          hasSize |-> FALSE,
                          PositionSize |-> 0])

\* --------------------------------------------------------------- arithmetic
Abs(x) == IF x < 0 THEN -x ELSE x

\* round(n / d) for d > 0: Python rounds half to even.
RoundDiv(n, d) ==
  LET q == n \div d
      r == n % d
  IN  IF 2 * r < d THEN q
      ELSE IF 2 * r > d THEN q + 1
      ELSE IF q % 2 = 0 THEN q ELSE q + 1

\* the decimals are counted as typed: prices are written with at least four
DecimalsAsTyped(p) == IF p % 10 # 0 THEN 5 ELSE 4

\* len(f"{entry_value}".split(".")[1]) for a float of p points
Decimals(p) ==
  IF p % 10 # 0 THEN 5
  ELSE IF p % 100 # 0 THEN 4
  ELSE IF p % 1000 # 0 THEN 3
  ELSE IF p % 10000 # 0 THEN 2
  ELSE 1

\* _get_multiplier, in points: 0.1 -> 10000, 0.001 -> 100, 0.01 -> 1000,
\* 0.0001 -> 10.
GetMultiplier(symbol, entry_value) ==
  IF symbol = "XAUUSD" THEN 10000
  ELSE IF symbol = "XAGUSD" THEN 100
  ELSE IF entry_value.str THEN 10
  ELSE IF Decimals(entry_value.px) >= 3 THEN 1000
  ELSE 10

\* a distance that rounds to zero is taken as one pip
PipsAtLeastOne(a, b, multiplier) ==
  IF RoundDiv(a - b, multiplier) = 0 THEN 1
  ELSE Abs(RoundDiv(a - b, multiplier))

\* abs(round((a - b) / multiplier))
Pips(a, b, multiplier) == Abs(RoundDiv(a - b, multiplier))

\* the size is rounded to the nearest hundredth instead of floored
PosSizeRound(balance, risk, stop_loss_pips) ==
  RoundDiv(balance * risk, 100000 * stop_loss_pips)

\* pos_size = floor((balance * risk / stop_loss_pips) / 10 * 100) / 100, in
\* hundredths of a lot; balance in cents, risk in basis points.
PosSize(balance, risk, stop_loss_pips) ==
  (balance * risk) \div (100000 * stop_loss_pips)

\* ------------------------------------------------------------------- venue
\* What the venue answers while one handler runs: whether connecting and
\* get_account_information succeed, the balance, whether get_symbol_price
\* succeeds and its quote, and which of the order calls (by position) the
\* venue rejects by raising.
Balances == {10000, 1000000}
Quotes == { [bid |-> 124900, ask |-> 125000],
            [bid |-> 125490, ask |-> 125510] }
MaxTP == 2
NoQuote == [bid |-> 0, ask |-> 0]
\* (an answer the handler never asks for is left at a default)
Venues ==
  { v \in [up : BOOLEAN, balance : Balances, quoteUp : BOOLEAN,
            quote : Quotes \cup {NoQuote}, rejects : SUBSET (1..MaxTP)] :
      /\ v.quoteUp <=> v.quote # NoQuote
      /\ ~v.up => v.balance = 10000 /\ ~v.quoteUp /\ v.rejects = {} }

IsPending(order_type) ==
  order_type \in {"Buy Limit", "Sell Limit", "Buy Stop", "Sell Stop"}

\* the connection method the if/elif chain selects
VenueOp(order_type) ==
  CASE order_type = "Buy" -> "create_market_buy_order"
    [] order_type = "Sell" -> "create_market_sell_order"
    [] order_type = "Buy Limit" -> "create_limit_buy_order"
    [] order_type = "Sell Limit" -> "create_limit_sell_order"
    [] order_type = "Buy Stop" -> "create_stop_buy_order"
    [] order_type = "Sell Stop" -> "create_stop_sell_order"
    [] OTHER -> "none"

\* every call carries the whole position size
OrderCallFullSize(trade, i, rejects) ==
  [op |-> VenueOp(trade.OrderType),
   symbol |-> trade.Symbol,
   volume |-> trade.PositionSize * 100,
   price |-> IF IsPending(trade.OrderType) THEN <<trade.Entry.px>> ELSE <<>>,
   sl |-> trade.StopLoss,
   tp |-> trade.TP[i],
   ok |-> i \notin rejects]

\* the i-th venue call of the loop; ok is the venue's answer
OrderCall(trade, i, rejects) ==
  [op |-> VenueOp(trade.OrderType),
   symbol |-> trade.Symbol,
   volume |-> (trade.PositionSize * 100) \div Len(trade.TP),
   price |-> IF IsPending(trade.OrderType) THEN <<trade.Entry.px>> ELSE <<>>,
   sl |-> trade.StopLoss,
   tp |-> trade.TP[i],
   ok |-> i \notin rejects]

\* every take-profit is submitted whatever the earlier calls answered
SubmitOrdersEach(trade, rejects) ==
  [i \in 1..Len(trade.TP) |-> OrderCall(trade, i, rejects)]

\* The calls the try block of lines 255-286 issues: one per take-profit, in
\* order, until one raises (the except clause is outside the loops).
SubmitOrders(trade, rejects) ==
  LET n == Len(trade.TP)
      failing == {i \in 1..n : i \in rejects}
      stop == IF failing = {} THEN n
              ELSE CHOOSE i \in failing : \A j \in failing : i <= j
  IN  [i \in 1..stop |-> OrderCall(trade, i, rejects)]

\* the quote is fetched and the trade's entry is left as it was
ResolveEntryKeep(trade, quote) == trade.Entry

\* if entry is NOW: the bid for "Buy", the ask for every other order type
ResolveEntry(trade, quote) ==
  IF trade.OrderType = "Buy" THEN Price(quote.bid) ELSE Price(quote.ask)

\* create_table: the figures the summary shows (cents for money)
create_table(trade, balance, stop_loss_pips, tp_pips) ==
  [order_type |-> trade.OrderType,
   symbol |-> trade.Symbol,
   entry |-> trade.Entry,
   stop_loss_pips |-> stop_loss_pips,
   tp_pips |-> tp_pips,
   risk |-> trade.RiskFactor,
   position_size |-> trade.PositionSize,
   balance |-> balance,
   potential_loss |-> trade.PositionSize * 10 * stop_loss_pips]

Result(trade, replies, calls, shown, outcome) ==
  [trade |-> trade, replies |-> replies, calls |-> calls, shown |-> shown,
   outcome |-> outcome]

\* enter_trade is ignored: orders are submitted in every flow
ExecuteAlways(enter_trade) == TRUE

\* if enter_trade:
Execute(enter_trade) == enter_trade

\* connect_and_process(update, trade, enter_trade) under venue answers v.
\* The trade dict is mutated in place, so the trade returned is what
\* user_data["trade"] holds afterwards.
connect_and_process(trade, enter_trade, v) ==
  IF ~v.up
  THEN Result(trade, <<"connection_error">>, <<>>, None, "connection_error")
  ELSE IF trade.Entry.str /\ ~v.quoteUp
  THEN Result(trade, <<"connected", "connection_error">>, <<>>, None,
              "connection_error")
  ELSE
    LET t1 == IF trade.Entry.str
              THEN [trade EXCEPT !.Entry = ResolveEntry(trade, v.quote)]
              ELSE trade
        multiplier == GetMultiplier(t1.Symbol, t1.Entry)
        stop_loss_pips == Pips(t1.StopLoss, t1.Entry.px, multiplier)
        t2 == [t1 EXCEPT !.hasSize = TRUE,
                         !.PositionSize =
                            PosSize(v.balance, t1.RiskFactor, stop_loss_pips)]
        tp_pips == [i \in 1..Len(t2.TP) |->
                      Pips(t2.TP[i], t2.Entry.px, multiplier)]
        table == create_table(t2, v.balance, stop_loss_pips, tp_pips)
        calls == SubmitOrders(t2, v.rejects)
    IN  IF stop_loss_pips = 0
        THEN Result(t1, <<"connected", "zero_stop">>, <<>>, None, "zero_stop")
        ELSE IF ~Execute(enter_trade)
        THEN Result(t2, <<"connected", "table">>, <<>>, Some(table),
                    "calculated")
        ELSE IF \E i \in 1..Len(calls) : ~calls[i].ok
        THEN Result(t2, <<"connected", "table", "entering", "trade_error">>,
                    calls, Some(table), "trade_error")
        ELSE Result(t2, <<"connected", "table", "entering", "executed">>,
                    calls, Some(table), "executed")

\* -------------------------------------------------------------- the inputs
TELEGRAM_USER == "owner"
Users == {"owner", "guest"}
Chats == 1..NumChats
\* ConversationHandler(per_user=True), per_chat by default: one conversation
\* per (chat, user).
Keys == Chats \X Users
UserOf(key) == key[2]

\* the signal texts users send, by name
Texts ==
  {"SigBuyTwoTP", "SigSellNow", "SigBuyLimitNow", "SigZeroStop",
   "SigBadSymbol", "SigShort"}
TextOf(name) ==
  CASE name = "SigBuyTwoTP" ->
         << <<"BUY", "GBPUSD">>, <<"Entry", "1.2500">>, <<"SL", "1.2450">>,
            <<"TP", "1.2600">>, <<"TP", "1.2700">> >>
    [] name = "SigSellNow" ->
         << <<"sell", "gbpusd">>, <<>>, <<"Entry", "now">>, <<"SL", "1.2550">>,
            <<"TP", "1.2400">> >>
    [] name = "SigBuyLimitNow" ->
         << <<"Buy", "Limit", "EURUSD">>, <<"Entry", "NOW">>,
            <<"SL", "1.2400">>, <<"TP", "1.2600">>, <<"TP", "1.2700">> >>
    [] name = "SigZeroStop" ->
         << <<"BUY", "GBPUSD">>, <<"Entry", "1.2500">>, <<"SL", "1.2500">>,
            <<"TP", "1.2600">> >>
    [] name = "SigBadSymbol" ->
         << <<"BUY", "BTCUSD">>, <<"Entry", "1.2500">>, <<"SL", "1.2450">>,
            <<"TP", "1.2600">> >>
    [] name = "SigShort" ->
         << <<"SELL", "GBPUSD">>, <<"Entry", "1.2500">>, <<"SL", "1.2550">> >>
    [] name = "SigScenarioA" ->
         << <<"BUY", "GBPUSD">>, <<"Entry", "1.2500">>, <<"SL", "1.2450">>,
            <<"TP", "1.2600">> >>
    [] name = "SigSymbolNow" ->
         << <<"BUY", "NOW">>, <<"Entry", "1.2500">>, <<"SL", "1.2450">>,
            <<"TP", "1.2600">> >>
    [] name = "SigBuyNow" ->
         << <<"BUY", "GBPUSD">>, <<"Entry", "NOW">>, <<"SL", "1.2400">>,
            <<"TP", "1.2600">>, <<"TP", "1.2700">> >>
    [] name = "SigBuyStopNow" ->
         << <<"BUY", "STOP", "GBPUSD">>, <<"Entry", "NOW">>,
            <<"SL", "1.2400">>, <<"TP", "1.2600">> >>
    [] name = "SigSellLimitNow" ->
         << <<"SELL", "LIMIT", "GBPUSD">>, <<"Entry", "NOW">>,
            <<"SL", "1.2700">>, <<"TP", "1.2400">>, <<"TP", "1.2450">> >>
    [] name = "SigSellStopNow" ->
         << <<"SELL", "STOP", "GBPUSD">>, <<"Entry", "NOW">>,
            <<"SL", "1.2700">>, <<"TP", "1.2400">> >>
    [] name = "SigNoType" ->
         << <<"GBPUSD">>, <<"Entry", "1.2500">>, <<"SL", "1.2450">>,
            <<"TP", "1.2600">> >>
    [] name = "SigNoSymbol" ->
         << <<"BUY">>, <<"Entry", "1.2500">>, <<"SL", "1.2450">>,
            <<"TP", "1.2600">> >>
    [] name = "SigNoEntry" ->
         << <<"BUY", "GBPUSD">>, <<"Entry">>, <<"SL", "1.2450">>,
            <<"TP", "1.2600">> >>
    [] name = "SigNoStopLoss" ->
         << <<"BUY", "GBPUSD">>, <<"Entry", "1.2500">>, <<"SL">>,
            <<"TP", "1.2600">> >>
    [] name = "SigNoTakeProfit" ->
         << <<"BUY", "GBPUSD">>, <<"Entry", "1.2500">>, <<"SL", "1.2450">>,
            <<"TP">> >>
    [] name = "SigEntryLineGone" ->
         << <<"BUY", "GBPUSD">>, <<"SL", "1.2450">>, <<"TP", "1.2600">>,
            <<"TP", "1.2700">> >>

\* ProbeSpec: the texts parse_signal and connect_and_process are applied to
ProbeTexts ==
  Texts \cup
  {"SigScenarioA", "SigSymbolNow", "SigBuyNow", "SigBuyStopNow",
   "SigSellLimitNow", "SigSellStopNow", "SigNoType", "SigNoSymbol",
   "SigNoEntry", "SigNoStopLoss", "SigNoTakeProfit", "SigEntryLineGone"}

Commands == {"start", "help", "trade", "calculate", "yes", "no", "cancel", "other"}
TextUpdate(text) == [cmd |-> "", text |-> text]
CommandUpdate(cmd) == [cmd |-> cmd, text |-> ""]
Updates == {TextUpdate(t) : t \in Texts} \cup {CommandUpdate(c) : c \in Commands}

\* ---------------------------------------------------------------- dispatch
\* a text sent in DECISION is routed to the cancel handler
RouteDeclining(stage, upd) ==
  IF upd.cmd = "start" THEN "start_command"
  ELSE IF upd.cmd = "help" THEN "help_command"
  ELSE IF stage = END /\ upd.cmd = "trade" THEN "trade_entry"
  ELSE IF stage = END /\ upd.cmd = "calculate" THEN "calculate_entry"
  ELSE IF stage = TRADE /\ upd.cmd = "" THEN "place_trade_handler"
  ELSE IF stage = CALCULATE /\ upd.cmd = "" THEN "calculate_trade_handler"
  ELSE IF stage = DECISION /\ upd.cmd = "yes" THEN "yes_handler"
  ELSE IF stage = DECISION THEN "cancel_handler"
  ELSE IF stage # END /\ upd.cmd = "cancel" THEN "cancel_handler"
  ELSE IF upd.cmd = "" THEN "unknown_command"
  ELSE "none"

\* The handler that main() registers for an update of a conversation in
\* `stage`: /start and /help first, then the ConversationHandler (the entry
\* points when no conversation runs, else the state's handlers, else the
\* fallbacks), then the catch-all text handler; "none" when no handler
\* takes the update.
Route(stage, upd) ==
  IF upd.cmd = "start" THEN "start_command"
  ELSE IF upd.cmd = "help" THEN "help_command"
  ELSE IF stage = END /\ upd.cmd = "trade" THEN "trade_entry"
  ELSE IF stage = END /\ upd.cmd = "calculate" THEN "calculate_entry"
  ELSE IF stage = TRADE /\ upd.cmd = "" THEN "place_trade_handler"
  ELSE IF stage = CALCULATE /\ upd.cmd = "" THEN "calculate_trade_handler"
  ELSE IF stage = DECISION /\ upd.cmd = "yes" THEN "yes_handler"
  ELSE IF stage = DECISION /\ upd.cmd = "no" THEN "cancel_handler"
  ELSE IF stage # END /\ upd.cmd = "cancel" THEN "cancel_handler"
  ELSE IF upd.cmd = "" THEN "unknown_command"
  ELSE "none"

\* ------------------------------------------------------------------- state
VARIABLES
  convState,   \* the ConversationHandler's state of each conversation
  user_data,   \* context.user_data[user]["trade"]: None or Some(trade)
  last,        \* the last update handled: its handler, what it saw and did
  sent,        \* the session running in a conversation has submitted orders
  sizing,      \* SizeSpec: one application of the position-size formula
  probe        \* ProbeSpec: one text parsed, then processed once

vars == <<convState, user_data, last, sent, sizing, probe>>

\* A handler ran without touching the venue.
Quiet(replies, outcome) == Result(<<>>, replies, <<>>, None, outcome)

Handled(op, key, upd, r) ==
  [op |-> op, key |-> key, upd |-> upd,
   stage |-> convState[key],     \* the conversation's state when it arrived
   replies |-> r.replies, calls |-> r.calls, shown |-> r.shown,
   outcome |-> r.outcome]

NoUpdate == [cmd |-> "", text |-> ""]

Init ==
  /\ convState = [k \in Keys |-> END]
  /\ user_data = [u \in Users |-> None]
  /\ last = [op |-> "init", key |-> <<1, TELEGRAM_USER>>, upd |-> NoUpdate,
             stage |-> END, replies |-> <<>>, calls |-> <<>>, shown |-> None,
             outcome |-> "init"]
  /\ sent = [k \in Keys |-> FALSE]
  /\ sizing = [balance |-> 0, risk |-> RISK_FACTOR, pips |-> 1, size |-> None]
  /\ probe = None

\* sent[key] after a handler that leaves the conversation in `next` having
\* made `calls`: a session that ends is discarded
Sent(key, next, calls) ==
  [sent EXCEPT ![key] = next # END /\ (@ \/ calls # <<>>)]

Authorized(key) == UserOf(key) = TELEGRAM_USER

\* some update the conversation can receive is routed to handler op
Routed(key, op) == \E upd \in Updates : Route(convState[key], upd) = op

\* ---------------------------------------------------------------- handlers
\* The handlers that only reply; `last` keeps their name, conversation and
\* reply, not the text or command they were sent.
Replied(op, key, reply, outcome) ==
  Handled(op, key, NoUpdate, Quiet(reply, outcome))

start_command(key) ==
  /\ Routed(key, "start_command")
  /\ last' = Replied("start_command", key, <<"welcome">>, "replied")
  /\ UNCHANGED <<convState, user_data, sent, sizing, probe>>

help_command(key) ==
  /\ Routed(key, "help_command")
  /\ last' = Replied("help_command", key, <<"help">>, "replied")
  /\ UNCHANGED <<convState, user_data, sent, sizing, probe>>

unknown_command(key) ==
  /\ Routed(key, "unknown_command")
  /\ last' = IF Authorized(key)
             THEN Replied("unknown_command", key, <<"unknown">>, "replied")
             ELSE Replied("unknown_command", key, <<"unauthorized">>,
                          "unauthorized")
  /\ UNCHANGED <<convState, user_data, sent, sizing, probe>>

\* an update no registered handler takes: nothing runs, nothing is sent
unhandled(key) ==
  /\ Routed(key, "none")
  /\ last' = Replied("none", key, <<>>, "ignored")
  /\ UNCHANGED <<convState, user_data, sent, sizing, probe>>

\* trade_entry and calculate_entry: the same body, returning TRADE or CALCULATE
Entry(op, key, upd, next) ==
  /\ Route(convState[key], upd) = op
  /\ IF Authorized(key)
     THEN /\ user_data' = [user_data EXCEPT ![UserOf(key)] = None]
          /\ convState' = [convState EXCEPT ![key] = next]
          /\ sent' = Sent(key, next, <<>>)
          /\ last' = Handled(op, key, upd, Quiet(<<"prompt">>, "prompted"))
     ELSE /\ UNCHANGED <<user_data, convState, sent>>
          /\ last' = Handled(op, key, upd,
                             Quiet(<<"unauthorized">>, "unauthorized"))
  /\ UNCHANGED <<sizing, probe>>

trade_entry(key, upd) == Entry("trade_entry", key, upd, TRADE)

calculate_entry(key, upd) == Entry("calculate_entry", key, upd, CALCULATE)

\* the text received is parsed whether or not a trade is pending
TradeForReparse(pending, text) == parse_signal(TextOf(text))

\* the trade the two signal handlers work on: the pending one if there is
\* one, else the parse of the text (None when it does not parse)
TradeFor(pending, text) ==
  IF pending = None THEN parse_signal(TextOf(text)) ELSE pending

\* "Trade parseado ..." is sent when the text was parsed
Parsed(pending) == IF pending = None THEN <<"parsed">> ELSE <<>>

\* The venue's answers to the calls connect_and_process makes for this trade
\* (no quote is asked for a numeric entry, no order is sent when only
\* calculating, at most one order per take-profit).
Answers(trade, enter_trade) ==
  { v \in Venues :
      /\ ~trade.Entry.str => ~v.quoteUp
      /\ v.rejects \subseteq (IF enter_trade THEN 1..Len(trade.TP) ELSE {}) }

\* after processing the signal the conversation stays in TRADE
place_trade_handler_staying(key, upd) ==
  /\ Route(convState[key], upd) = "place_trade_handler"
  /\ LET pending == user_data[UserOf(key)]
         trade == TradeFor(pending, upd.text)
     IN  IF trade = None
         THEN /\ last' = Handled("place_trade_handler", key, upd,
                                 Quiet(<<"parse_error">>, "parse_error"))
              /\ UNCHANGED <<convState, user_data, sent>>
         ELSE \E v \in Answers(trade[1], TRUE) :
                LET r == connect_and_process(trade[1], TRUE, v)
                IN  /\ user_data' = [user_data EXCEPT ![UserOf(key)] = None]
                    /\ sent' = Sent(key, TRADE, r.calls)
                    /\ last' = Handled("place_trade_handler", key, upd,
                                       [r EXCEPT !.replies =
                                          Parsed(pending) \o r.replies])
                    /\ UNCHANGED convState
  /\ UNCHANGED <<sizing, probe>>

place_trade_handler(key, upd) ==
  /\ Route(convState[key], upd) = "place_trade_handler"
  /\ LET pending == user_data[UserOf(key)]
         trade == TradeFor(pending, upd.text)
     IN  IF trade = None
         THEN /\ last' = Handled("place_trade_handler", key, upd,
                                 Quiet(<<"parse_error">>, "parse_error"))
              /\ UNCHANGED <<convState, user_data, sent>>
         ELSE \E v \in Answers(trade[1], TRUE) :
                LET r == connect_and_process(trade[1], TRUE, v)
                IN  /\ user_data' = [user_data EXCEPT ![UserOf(key)] = None]
                    /\ convState' = [convState EXCEPT ![key] = END]
                    /\ sent' = Sent(key, END, r.calls)
                    /\ last' = Handled("place_trade_handler", key, upd,
                                       [r EXCEPT !.replies =
                                          Parsed(pending) \o r.replies])
  /\ UNCHANGED <<sizing, probe>>

\* a text that does not parse ends the conversation
calculate_trade_handler_ending(key, upd) ==
  /\ Route(convState[key], upd) = "calculate_trade_handler"
  /\ LET pending == user_data[UserOf(key)]
         trade == TradeFor(pending, upd.text)
     IN  IF trade = None
         THEN /\ last' = Handled("calculate_trade_handler", key, upd,
                                 Quiet(<<"parse_error">>, "parse_error"))
              /\ convState' = [convState EXCEPT ![key] = END]
              /\ sent' = Sent(key, END, <<>>)
              /\ UNCHANGED user_data
         ELSE \E v \in Answers(trade[1], FALSE) :
                LET r == connect_and_process(trade[1], FALSE, v)
                IN  /\ user_data' = [user_data EXCEPT ![UserOf(key)] = Some(r.trade)]
                    /\ convState' = [convState EXCEPT ![key] = DECISION]
                    /\ sent' = Sent(key, DECISION, r.calls)
                    /\ last' = Handled("calculate_trade_handler", key, upd,
                                       [r EXCEPT !.replies =
                                          Parsed(pending) \o r.replies
                                          \o <<"confirm_prompt">>])
  /\ UNCHANGED <<sizing, probe>>

calculate_trade_handler(key, upd) ==
  /\ Route(convState[key], upd) = "calculate_trade_handler"
  /\ LET pending == user_data[UserOf(key)]
         trade == TradeFor(pending, upd.text)
     IN  IF trade = None
         THEN /\ last' = Handled("calculate_trade_handler", key, upd,
                                 Quiet(<<"parse_error">>, "parse_error"))
              /\ UNCHANGED <<convState, user_data, sent>>
         ELSE \E v \in Answers(trade[1], FALSE) :
                LET r == connect_and_process(trade[1], FALSE, v)
                IN  /\ user_data' = [user_data EXCEPT ![UserOf(key)] = Some(r.trade)]
                    /\ convState' = [convState EXCEPT ![key] = DECISION]
                    /\ sent' = Sent(key, DECISION, r.calls)
                    /\ last' = Handled("calculate_trade_handler", key, upd,
                                       [r EXCEPT !.replies =
                                          Parsed(pending) \o r.replies
                                          \o <<"confirm_prompt">>])
  /\ UNCHANGED <<sizing, probe>>

yes_handler(key, upd) ==
  /\ Route(convState[key], upd) = "yes_handler"
  /\ LET pending == user_data[UserOf(key)]
     IN  IF pending = None
         THEN /\ last' = Handled("yes_handler", key, upd,
                                 Quiet(<<"no_pending">>, "no_pending"))
              /\ sent' = Sent(key, END, <<>>)
              /\ UNCHANGED user_data
         ELSE \E v \in Answers(pending[1], TRUE) :
                LET r == connect_and_process(pending[1], TRUE, v)
                IN  /\ last' = Handled("yes_handler", key, upd, r)
                    /\ sent' = Sent(key, END, r.calls)
                    /\ user_data' = [user_data EXCEPT ![UserOf(key)] = None]
  /\ convState' = [convState EXCEPT ![key] = END]
  /\ UNCHANGED <<sizing, probe>>

\* the conversation ends and the pending trade stays in user_data
cancel_handler_keeping(key, upd) ==
  /\ Route(convState[key], upd) = "cancel_handler"
  /\ convState' = [convState EXCEPT ![key] = END]
  /\ sent' = Sent(key, END, <<>>)
  /\ last' = Handled("cancel_handler", key, upd, Quiet(<<"cancelled">>, "cancelled"))
  /\ UNCHANGED <<user_data, sizing, probe>>

cancel_handler(key, upd) ==
  /\ Route(convState[key], upd) = "cancel_handler"
  /\ user_data' = [user_data EXCEPT ![UserOf(key)] = None]
  /\ convState' = [convState EXCEPT ![key] = END]
  /\ sent' = Sent(key, END, <<>>)
  /\ last' = Handled("cancel_handler", key, upd, Quiet(<<"cancelled">>, "cancelled"))
  /\ UNCHANGED <<sizing, probe>>

Next ==
  \E key \in Keys :
    \/ start_command(key)
    \/ help_command(key)
    \/ unknown_command(key)
    \/ unhandled(key)
    \/ \E upd \in Updates :
         \/ trade_entry(key, upd)
         \/ calculate_entry(key, upd)
         \/ cancel_handler(key, upd)
         \/ place_trade_handler(key, upd)
         \/ calculate_trade_handler(key, upd)
         \/ yes_handler(key, upd)

Spec == Init /\ [][Next]_vars

\* ------------------------------------------------- the position-size formula
BalanceStep == 25 * 100
RiskFactors == {0, 50, 100, 250, 10000}

SizeInit ==
  /\ convState = [k \in Keys |-> END]
  /\ user_data = [u \in Users |-> None]
  /\ last = [op |-> "init", key |-> <<1, TELEGRAM_USER>>, upd |-> NoUpdate,
             stage |-> END, replies |-> <<>>, calls |-> <<>>, shown |-> None,
             outcome |-> "init"]
  /\ sent = [k \in Keys |-> FALSE]
  /\ probe = None
  /\ sizing \in [balance : {k * BalanceStep : k \in 0..MaxBalanceSteps},
                 risk : RiskFactors, pips : 1..MaxPips, size : {None}]

ComputeSize ==
  /\ sizing.size = None
  /\ sizing' = [sizing EXCEPT
                  !.size = Some(PosSize(sizing.balance, sizing.risk, sizing.pips))]
  /\ UNCHANGED <<convState, user_data, last, sent, probe>>

SizeNext == ComputeSize

SizeSpec == SizeInit /\ [][SizeNext]_vars

\* ------------------------------------- parse_signal and connect_and_process
\* One text is parsed, and when it parses the trade is processed once under
\* one set of venue answers, calculating only or entering the trade.
ProbeInit ==
  /\ convState = [k \in Keys |-> END]
  /\ user_data = [u \in Users |-> None]
  /\ last = [op |-> "init", key |-> <<1, TELEGRAM_USER>>, upd |-> NoUpdate,
             stage |-> END, replies |-> <<>>, calls |-> <<>>, shown |-> None,
             outcome |-> "init"]
  /\ sent = [k \in Keys |-> FALSE]
  /\ sizing = [balance |-> 0, risk |-> RISK_FACTOR, pips |-> 1, size |-> None]
  /\ probe \in [text : ProbeTexts, enter_trade : BOOLEAN, venue : Venues,
                 step : {"text"}, parsed : {None}, result : {None}]

ProbeParse ==
  /\ probe.step = "text"
  /\ probe' = [probe EXCEPT !.step = "parsed",
                            !.parsed = parse_signal(TextOf(probe.text))]
  /\ UNCHANGED <<convState, user_data, last, sent, sizing>>

ProbeProcess ==
  /\ probe.step = "parsed"
  /\ probe.parsed # None
  /\ probe.venue \in Answers(probe.parsed[1], probe.enter_trade)
  /\ probe' = [probe EXCEPT
                 !.step = "processed",
                 !.result = Some(connect_and_process(probe.parsed[1],
                                                     probe.enter_trade,
                                                     probe.venue))]
  /\ UNCHANGED <<convState, user_data, last, sent, sizing>>

ProbeNext == ProbeParse \/ ProbeProcess

ProbeSpec == ProbeInit /\ [][ProbeNext]_vars

\* ================================================================== claims
Pending(key) == user_data[UserOf(key)]
TwoTargets == last.shown # None /\ Len(last.shown[1].tp_pips) = 2
Submitted == last.calls # <<>>
SignalHandlers == {"place_trade_handler", "calculate_trade_handler"}

C2_ErrorAborts ==
  last.outcome \in {"zero_stop", "connection_error"} =>
    /\ convState[last.key] = END
    /\ Pending(last.key) = None

\* C3 as stated: an input received in AwaitingConfirmation that is not the
\* affirmative leaves the conversation terminal with the pending order
\* cleared.
C3_AnyOtherInputCancels ==
  (last.stage = DECISION /\ last.op # "yes_handler") =>
    /\ convState[last.key] = END
    /\ Pending(last.key) = None

\* C3, amended: for an input received in AwaitingConfirmation, /no and
\* /cancel (and only they) cancel: the conversation becomes terminal with
\* the pending order cleared; /yes ends it too, with the pending order
\* cleared; every other input (plain text, /start, /help, any other command)
\* leaves the conversation in AwaitingConfirmation and the pending order as
\* it was.
C3_OnlyNoAndCancelCancel ==
  [][ last'.stage = DECISION =>
        /\ last'.op = "cancel_handler" => last'.upd.cmd \in {"no", "cancel"}
        /\ last'.op = "yes_handler" => last'.upd.cmd = "yes"
        /\ IF last'.op \in {"cancel_handler", "yes_handler"}
           THEN /\ convState'[last'.key] = END
                /\ user_data'[UserOf(last'.key)] = None
           ELSE UNCHANGED <<convState, user_data>> ]_vars

C3_Witness ==
  /\ last.stage = DECISION
  /\ last.op = "unknown_command"
  /\ convState[last.key] = DECISION
  /\ Pending(last.key) # None

\* C4: in a conversation started with /calculate (its state is CALCULATE,
\* then DECISION) the only handler that sends orders to the venue is the one
\* for /yes received in AwaitingConfirmation; the handler that parses, sizes
\* and presents the signal sends none.
C4_NoSubmissionBeforeYes ==
  /\ (Submitted /\ last.stage \in {CALCULATE, DECISION}) =>
       /\ last.op = "yes_handler"
       /\ last.stage = DECISION
       /\ last.upd.cmd = "yes"
  /\ last.op = "calculate_trade_handler" => ~Submitted

C4_Witness ==
  /\ last.op = "calculate_trade_handler"
  /\ last.outcome = "calculated"
  /\ last.shown # None
  /\ ~Submitted
  /\ convState[last.key] = DECISION

\* C5 as stated: the order a conversation submits is the one parsed from
\* that conversation's own signal text (here: the text the execute-flow
\* handler has just received).
C5_SubmitsOwnSignal ==
  (last.op = "place_trade_handler" /\ Submitted) =>
    LET own == parse_signal(TextOf(last.upd.text))
    IN  /\ own # None
        /\ \A i \in 1..Len(last.calls) :
             /\ last.calls[i].op = VenueOp(own[1].OrderType)
             /\ last.calls[i].symbol = own[1].Symbol
             /\ last.calls[i].sl = own[1].StopLoss
             /\ last.calls[i].tp = own[1].TP[i]

\* C6: /cancel is taken by the cancel handler in every non-terminal state of
\* a conversation (TRADE, CALCULATE, DECISION), and when the cancel handler
\* has run the conversation is terminal and the pending order is empty.
C6_CancelEverywhere ==
  /\ \A key \in Keys :
       convState[key] # END =>
         Route(convState[key], CommandUpdate("cancel")) = "cancel_handler"
  /\ last.op = "cancel_handler" =>
       /\ convState[last.key] = END
       /\ Pending(last.key) = None

C6_Witness ==
  /\ last.op = "cancel_handler"
  /\ last.upd.cmd = "cancel"
  /\ last.stage = DECISION
  /\ convState[last.key] = END
  /\ Pending(last.key) = None

\* C7 as stated, for a conversation that a handler has just ended: it is
\* terminal with an empty pending order, and as long as it stays terminal
\* its pending order stays empty.
C7_TerminalHasNoPending ==
  [][ ( /\ last.op \in {"place_trade_handler", "yes_handler", "cancel_handler"}
        /\ convState[last.key] = END
        /\ convState'[last.key] = END )
      => /\ Pending(last.key) = None
         /\ user_data'[UserOf(last.key)] = None ]_vars

C9_RiskNeverExceeded ==
  sizing.size # None =>
    /\ sizing.size[1] * 100000 * sizing.pips <= sizing.balance * sizing.risk
    /\ (sizing.size[1] + 1) * 100000 * sizing.pips > sizing.balance * sizing.risk

C9_Witness ==
  /\ sizing.size # None
  /\ sizing.size[1] > 0
  /\ sizing.size[1] * 100000 * sizing.pips < sizing.balance * sizing.risk

\* C10 as stated: whenever sizing completes (the stop is at least one pip)
\* the position size is strictly positive, so no summary shows and no order
\* carries a zero position size.
C10_SizePositive ==
  /\ last.shown # None => last.shown[1].position_size > 0
  /\ \A i \in 1..Len(last.calls) : last.calls[i].volume > 0

\* the trade's entry is a price and its stop-loss distance rounds to 0 pips
ZeroStop(trade) ==
  /\ ~trade.Entry.str
  /\ RoundDiv(trade.StopLoss - trade.Entry.px,
              GetMultiplier(trade.Symbol, trade.Entry)) = 0

\* the trade a handler is about to process: the pending one for /yes, the
\* pending or parsed one for a signal text
Processed(op, key, upd) ==
  IF op = "yes_handler" THEN Pending(key)
  ELSE IF op \in SignalHandlers THEN TradeFor(Pending(key), upd.text)
  ELSE None

\* C11: an order whose stop-loss distance rounds to zero pips (the stop
\* equal to the entry, for one) is never sized and never submitted: the
\* handler that processes it shows no summary and makes no order call, in
\* the execute flow, in the calculate flow and on the /yes that follows;
\* the order kept pending has no position size, in any state.
C11_ZeroStopNeverSized ==
  [][ LET before == Processed(last'.op, last'.key, last'.upd)
          after == user_data'[UserOf(last'.key)]
      IN  /\ ( \/ before # None /\ ZeroStop(before[1])
               \/ last'.outcome = "zero_stop" )
             => /\ last'.calls = <<>>
                /\ last'.shown = None
                /\ last'.outcome \in {"zero_stop", "connection_error"}
                /\ after # None => ZeroStop(after[1]) /\ ~after[1].hasSize
          /\ \A u \in Users :
               (user_data'[u] # None /\ ZeroStop(user_data'[u][1]))
                 => ~user_data'[u][1].hasSize ]_vars

C11_Witness ==
  /\ last.op = "yes_handler"
  /\ last.stage = DECISION
  /\ last.outcome = "zero_stop"
  /\ last.calls = <<>>
  /\ last.shown = None

\* Scenario A: Buy GBPUSD, entry 1.2500, stop-loss 1.2450, one take-profit
\* 1.2600, processed with account balance 10000.00 and risk fraction 0.01
ScenarioA ==
  /\ probe.text = "SigScenarioA"
  /\ probe.step = "processed"
  /\ probe.venue.up
  /\ probe.venue.balance = 1000000
  /\ probe.parsed[1].RiskFactor = 100

\* the summary of Scenario A shows this position size (hundredths of a lot)
ScenarioAYields(size) ==
  LET r == probe.result[1]
  IN  /\ r.shown # None
      /\ r.trade.OrderType = "Buy" /\ r.trade.Symbol = "GBPUSD"
      /\ GetMultiplier(r.trade.Symbol, r.trade.Entry) = 10
      /\ r.shown[1].stop_loss_pips = 50
      /\ r.shown[1].tp_pips = <<100>>
      /\ r.shown[1].position_size = size
      /\ r.trade.hasSize /\ r.trade.PositionSize = size

\* C12 as stated: Scenario A yields multiplier 0.0001, 50 stop-loss pips,
\* position size 0.4 and 100 take-profit pips.
C12_ScenarioASizeFourTenths == ScenarioA => ScenarioAYields(40)

\* C12, amended: Scenario A yields multiplier 0.0001, 50 stop-loss pips,
\* position size 0.2 (floor((10000 * 0.01 / 50) / 10 * 100) / 100) and 100
\* take-profit pips.
C12_ScenarioASizeTwoTenths == ScenarioA => ScenarioAYields(20)

C12_Witness ==
  /\ ScenarioA
  /\ probe.result[1].shown # None
  /\ probe.result[1].shown[1].position_size = 20

\* the tradable instrument codes: the currency pairs and the two metals
\* (NOW is the market-now keyword of the entry line)
Instruments == SYMBOLS \ {"NOW"}

\* C13 as stated: a signal is accepted only if the last token of its first
\* line, uppercased, is a tradable instrument code; an accepted order's
\* symbol is a currency pair or a metal.
C13_OnlyInstrumentsAccepted ==
  (probe.step # "text" /\ probe.parsed # None) =>
    /\ Upper(Last(NonEmptyLines(TextOf(probe.text))[1])) \in Instruments
    /\ probe.parsed[1].Symbol \in Instruments

\* the part a probe text lacks, by the error kind the specification names
\* for it ("none" for a text that lacks none of them)
Defect(name) ==
  CASE name = "SigNoType" -> "UnknownOrderType"
    [] name = "SigNoSymbol" -> "UnknownSymbol"
    [] name = "SigNoEntry" -> "InvalidEntry"
    [] name = "SigNoStopLoss" -> "InvalidStopLoss"
    [] name = "SigNoTakeProfit" -> "InvalidTakeProfit"
    [] name = "SigShort" -> "InsufficientLines"
    [] OTHER -> "none"

Defective == {t \in ProbeTexts : Defect(t) # "none"}

\* C14 as stated: a signal lacking one part fails to parse, and the failure
\* value tells the defect: no text with a different defect fails with the
\* same value.
C14_DefectsDistinguished ==
  (probe.step = "parsed" /\ probe.text \in Defective) =>
    /\ probe.parsed = None
    /\ \A other \in Defective :
         Defect(other) # Defect(probe.text)
           => parse_signal(TextOf(other)) # probe.parsed

\* C14, amended: a signal whose first line names no order type or no
\* symbol, whose entry, stop-loss or first take-profit line carries no
\* number, or which has fewer than four non-empty lines, fails to parse,
\* and every such failure is the same empty result: the failure value does
\* not tell the defect.  (A signal from which the entry line is left out
\* altogether is not such a signal: with two take-profits it still has
\* four lines and parses, the stop-loss read as the entry.)
C14_DefectsFailAlike ==
  /\ (probe.step = "parsed" /\ probe.text \in Defective) =>
       /\ probe.parsed = None
       /\ \A other \in Defective : parse_signal(TextOf(other)) = probe.parsed
  /\ probe.step = "processed" => probe.text \notin Defective
  /\ (probe.step = "parsed" /\ probe.text = "SigEntryLineGone") =>
       /\ probe.parsed # None
       /\ probe.parsed[1].Entry = Price(124500)
       /\ probe.parsed[1].StopLoss = 126000
       /\ probe.parsed[1].TP = <<127000>>

C14_Witness ==
  /\ probe.step = "parsed"
  /\ Defect(probe.text) = "InvalidStopLoss"
  /\ probe.parsed = None

\* the signal handler has just parsed a text whose entry is NOW
ParsedNow ==
  /\ last.op \in SignalHandlers
  /\ Head(last.replies) = "parsed"
  /\ parse_signal(TextOf(last.upd.text))[1].Entry.str

QuotedPrices == {q.bid : q \in Quotes} \cup {q.ask : q \in Quotes}

\* C15: whenever a summary is shown (pips and size were computed), a size
\* is recorded on the pending order, or an order is submitted, the order's
\* entry is a price, not NOW; for an order parsed with entry NOW the price
\* is a quote of the venue, and it is the price the pip multiplier and the
\* stop-loss pips are computed from.
C15_SizingSeesPrice ==
  /\ last.shown # None => ~last.shown[1].entry.str
  /\ \A u \in Users :
       (user_data[u] # None /\ user_data[u][1].hasSize)
         => ~user_data[u][1].Entry.str
  /\ Submitted =>
       /\ last.shown # None
       /\ \A i \in 1..Len(last.calls) :
            last.calls[i].price \in {<<>>, <<last.shown[1].entry.px>>}
  /\ (ParsedNow /\ last.shown # None) =>
       LET order == parse_signal(TextOf(last.upd.text))[1]
           shown == last.shown[1]
       IN  /\ shown.entry.px \in QuotedPrices
           /\ shown.stop_loss_pips =
                Abs(RoundDiv(order.StopLoss - shown.entry.px,
                             GetMultiplier(order.Symbol, shown.entry)))

C15_Witness ==
  /\ ParsedNow
  /\ last.op = "calculate_trade_handler"
  /\ last.upd.text = "SigSellNow"
  /\ last.shown # None
  /\ last.shown[1].entry = Price(125000)
  /\ Pending(last.key) # None
  /\ Pending(last.key)[1].hasSize

\* C16 as stated: an entry of NOW is resolved to the venue's bid for Buy,
\* Buy Limit and Buy Stop, and to the venue's ask for Sell, Sell Limit and
\* Sell Stop.
C16_QuoteSideFollowsDirection ==
  ( /\ probe.step = "processed"
    /\ probe.parsed[1].Entry.str
    /\ probe.venue.up /\ probe.venue.quoteUp ) =>
    probe.result[1].trade.Entry =
      IF probe.parsed[1].OrderType \in {"Buy", "Buy Limit", "Buy Stop"}
      THEN Price(probe.venue.quote.bid)
      ELSE Price(probe.venue.quote.ask)

\* order b is order a, its entry unchanged or resolved from NOW to a quote
SameOrder(a, b) ==
  /\ b.OrderType = a.OrderType
  /\ b.Symbol = a.Symbol
  /\ b.StopLoss = a.StopLoss
  /\ b.TP = a.TP
  /\ \/ b.Entry = a.Entry
     \/ a.Entry.str /\ ~b.Entry.str /\ b.Entry.px \in QuotedPrices

\* C17: as long as an order is pending its order type, symbol, stop-loss
\* and take-profits stay what they were, and its entry either stays or goes
\* from NOW to a quoted price; when a pending order is processed again (by
\* /yes, or by a later signal handler) the summary shown and the calls made
\* carry these same fields, and a numeric entry is shown as it was.
C17_OrderFieldsFrozen ==
  [][ /\ \A u \in Users :
           (user_data[u] # None /\ user_data'[u] # None)
             => SameOrder(user_data[u][1], user_data'[u][1])
      /\ (Pending(last'.key) # None /\ last'.op \in SignalHandlers \cup {"yes_handler"})
           => LET a == Pending(last'.key)[1]
              IN  /\ last'.shown # None =>
                       /\ last'.shown[1].order_type = a.OrderType
                       /\ last'.shown[1].symbol = a.Symbol
                       /\ Len(last'.shown[1].tp_pips) = Len(a.TP)
                       /\ ~a.Entry.str => last'.shown[1].entry = a.Entry
                       /\ a.Entry.str =>
                            /\ ~last'.shown[1].entry.str
                            /\ last'.shown[1].entry.px \in QuotedPrices
                  /\ \A i \in 1..Len(last'.calls) :
                       /\ last'.calls[i].symbol = a.Symbol
                       /\ last'.calls[i].sl = a.StopLoss
                       /\ last'.calls[i].tp = a.TP[i]
                       /\ ~a.Entry.str =>
                            last'.calls[i].price \in {<<>>, <<a.Entry.px>>} ]_vars

\* a pending order parsed with entry NOW and resolved to a quote has been
\* sized again and submitted on /yes
C17_Witness ==
  /\ last.op = "yes_handler"
  /\ last.outcome = "executed"
  /\ last.shown[1].order_type = "Buy Limit"
  /\ last.shown[1].entry = Price(125510)
  /\ last.calls[1].price = <<125510>>

\* connect_and_process has reached the submission of a sized order
Batch ==
  /\ probe.step = "processed"
  /\ probe.enter_trade
  /\ probe.result[1].shown # None

\* the venue operation the specification names for an order type
OperationOf(order_type) ==
  CASE order_type = "Buy" -> "create_market_buy_order"
    [] order_type = "Sell" -> "create_market_sell_order"
    [] order_type = "Buy Limit" -> "create_limit_buy_order"
    [] order_type = "Sell Limit" -> "create_limit_sell_order"
    [] order_type = "Buy Stop" -> "create_stop_buy_order"
    [] order_type = "Sell Stop" -> "create_stop_sell_order"

\* the i-th call is the one for the i-th take-profit of the order
CallFor(call, order, i) ==
  /\ call.op = OperationOf(order.OrderType)
  /\ call.symbol = order.Symbol
  /\ call.volume * Len(order.TP) = order.PositionSize * 100
  /\ call.sl = order.StopLoss
  /\ call.tp = order.TP[i]
  /\ call.price =
       IF order.OrderType \in {"Buy Limit", "Sell Limit", "Buy Stop", "Sell Stop"}
       THEN <<order.Entry.px>> ELSE <<>>

RECURSIVE SumVolumes(_)
SumVolumes(calls) ==
  IF calls = <<>> THEN 0 ELSE Head(calls).volume + SumVolumes(Tail(calls))

C19_SubmitsWhatWasShown ==
  [][ ( /\ last.op = "calculate_trade_handler"
        /\ last.shown # None
        /\ last'.op = "yes_handler"
        /\ last'.key = last.key
        /\ last'.calls # <<>> )
      => /\ last'.shown[1].entry = last.shown[1].entry
         /\ last'.shown[1].stop_loss_pips = last.shown[1].stop_loss_pips
         /\ last'.shown[1].position_size = last.shown[1].position_size
         /\ \A i \in 1..Len(last'.calls) :
              last'.calls[i].volume * Len(last.shown[1].tp_pips)
                = last.shown[1].position_size * 100 ]_vars

\* C20: a session (a conversation from its entry command to END) issues at
\* most one submission batch: a handler submits orders only in a running
\* session that has submitted none so far, the batch has at most one call
\* per take-profit, each for a different take-profit, and the session ends
\* with it; an entry command is taken only when no session is running, so
\* /trade or /calculate sent in the middle of a session starts no new one.
C20_OneBatchPerSession ==
  [][ /\ last'.calls # <<>> =>
           /\ last'.stage \in {TRADE, DECISION}
           /\ ~sent[last'.key]
           /\ ~sent'[last'.key]
           /\ convState'[last'.key] = END
           /\ Len(last'.calls) <= Len(last'.shown[1].tp_pips)
           /\ \A i, j \in 1..Len(last'.calls) :
                i # j => last'.calls[i].tp # last'.calls[j].tp
      /\ last'.op \in {"trade_entry", "calculate_entry"} => last'.stage = END
      /\ \A key \in Keys : sent'[key] => convState'[key] # END ]_vars

C20_Witness ==
  /\ last.op = "yes_handler"
  /\ Len(last.calls) = 2
  /\ last.calls[1].tp # last.calls[2].tp
  /\ convState[last.key] = END
  /\ ~sent[last.key]

====
